---- MODULE Spec2Model ----
(***************************************************************************)
(* A model of the data-access facade FnDatabaseAdapter (get / set / fetch) *)
(* together with the cache store adapter FnRedisService and the storage    *)
(* backends FnFirestoreService, FnDynamoDBService and FnMongoService.      *)
(*                                                                         *)
(* JavaScript runs the facade on one thread: a call runs without           *)
(* interruption up to its next `await`, where other calls may run.  Each   *)
(* action below is therefore the code of one call between two awaits: it   *)
(* consumes the answer of the awaited operation (whose effect on the store *)
(* or on the cache takes place at that moment) and runs the synchronous    *)
(* code up to the next awaited operation.                                  *)
(***************************************************************************)
EXTENDS Naturals, Sequences, FiniteSets

(***************************************************************************)
(* Bounds of the model.                                                    *)
(***************************************************************************)
\* number of facade calls made in one behaviour
MaxCalls == 3
\* number of facade calls that may be in flight at the same time
MaxInFlight == 2

\* The call records the model keeps: a new call takes the record of the oldest
\* call that has returned.
Procs == 1..MaxInFlight

(***************************************************************************)
(* Program constants.                                                      *)
(***************************************************************************)
\* config.js: parseInt(process.env.DEFAULT_CACHE_EXPIRY, 10) || 3600
DEFAULT_CACHE_EXPIRY == 3600

(***************************************************************************)
(* JavaScript values.  A value is a record [k, s, kv]: k is its kind,      *)
(* s the text of a string or the decimal text of a number, kv the ordered  *)
(* (name, value) pairs of an object, the values being strings.             *)
(***************************************************************************)
Undefined == [k |-> "undefined", s |-> "", kv |-> << >>]
Null == [k |-> "null", s |-> "", kv |-> << >>]
Str(x) == [k |-> "str", s |-> x, kv |-> << >>]
Num(x) == [k |-> "num", s |-> x, kv |-> << >>]
Obj(pairs) == [k |-> "obj", s |-> "", kv |-> pairs]

\* typeof v
TypeOf(v) ==
    CASE v.k = "undefined" -> "undefined"
      [] v.k = "str" -> "string"
      [] v.k = "num" -> "number"
      [] OTHER -> "object"

\* the truthiness of v, as `if (v)` tests it
Truthy(v) ==
    CASE v.k = "undefined" -> FALSE
      [] v.k = "null" -> FALSE
      [] v.k = "str" -> v.s # ""
      [] v.k = "num" -> v.s \notin {"0", "NaN"}
      [] OTHER -> TRUE

\* String(v), as a template literal `${v}` renders it
TemplateString(v) ==
    CASE v.k = "undefined" -> "undefined"
      [] v.k = "null" -> "null"
      [] v.k = "obj" -> "[object Object]"
      [] OTHER -> v.s

\* Object.keys(v) of an object: its own property names, in insertion order
ObjectKeys(v) == [i \in 1..Len(v.kv) |-> v.kv[i][1]]

\* String(names) of an array of strings: its elements joined by ","
RECURSIVE ArrayToString(_)
ArrayToString(names) ==
    IF names = << >> THEN ""
    ELSE IF Len(names) = 1 THEN names[1]
    ELSE names[1] \o "," \o ArrayToString(Tail(names))

\* whether the object v has an own property called name
HasProp(v, name) == v.k = "obj" /\ \E i \in 1..Len(v.kv) : v.kv[i][1] = name

\* v[name]: the property's value, undefined when v has no such property
GetProp(v, name) ==
    IF HasProp(v, name)
    THEN Str(v.kv[CHOOSE i \in 1..Len(v.kv) : v.kv[i][1] = name][2])
    ELSE Undefined

\* the pairs kv with property name set to val: in place when present, else appended
SetPair(kv, name, val) ==
    IF \E i \in 1..Len(kv) : kv[i][1] = name
    THEN [i \in 1..Len(kv) |-> IF kv[i][1] = name THEN <<name, val>> ELSE kv[i]]
    ELSE Append(kv, <<name, val>>)

\* {...a, ...b} on pairs: b's properties written over a's, in b's order
RECURSIVE Spread(_, _)
Spread(a, b) ==
    IF b = << >> THEN a
    ELSE Spread(SetPair(a, b[1][1], b[1][2]), Tail(b))

(***************************************************************************)
(* The arguments the calls are made with.                                  *)
(***************************************************************************)
Collections == {"users"}
Ids == {"u1"}
\* the order in which a backend lists the documents of a collection
IdOrder == <<"u1">>

\* keys of get: a string, a number, a one-field and a two-field primary key
GetKeys ==
    { Str("u1"), Num("7"), Obj(<< <<"id", "u1">> >>),
      Obj(<< <<"pk", "u1">>, <<"sk", "s1">> >>) }

\* keyOrQuery of set
SetKeys == { Str("u1"), Obj(<< <<"id", "u1">> >>) }

\* data of set
SetData ==
    { Obj(<< <<"name", "B">> >>),
      Obj(<< <<"id", "u1">>, <<"name", "B">> >>),
      Obj(<< <<"id", "u1">> >>) }

\* options of get: [given |-> FALSE] is a call that omits the argument;
\* cacheExpiry 0 stands for an options object without cacheExpiry (undefined)
GetOptions ==
    { [given |-> FALSE, useCache |-> FALSE, cacheExpiry |-> 0],
      [given |-> TRUE, useCache |-> FALSE, cacheExpiry |-> 0],
      [given |-> TRUE, useCache |-> TRUE, cacheExpiry |-> 0],
      [given |-> TRUE, useCache |-> TRUE, cacheExpiry |-> 60] }

\* filters of fetch: {} (what the facade passes when the caller omits them)
\* and an empty list of filters
Arr(items) == [k |-> "arr", s |-> "", kv |-> items]
FetchFilters == { Obj(<< >>), Arr(<< >>) }

\* the arguments of the calls that are made one after the other
AllArgs ==
    [getKeys |-> GetKeys, getOptions |-> GetOptions, setKeys |-> SetKeys,
     setData |-> SetData, fetchFilters |-> FetchFilters]

\* the arguments of the calls that are made concurrently
FewArgs ==
    [getKeys |-> { Str("u1") },
     getOptions |-> { [given |-> FALSE, useCache |-> FALSE, cacheExpiry |-> 0],
                      [given |-> TRUE, useCache |-> TRUE, cacheExpiry |-> 60] },
     setKeys |-> { Str("u1") },
     setData |-> { Obj(<< <<"id", "u1">>, <<"name", "B">> >>) },
     fetchFilters |-> { Arr(<< >>) }]

(***************************************************************************)
(* Cache keys of the facade.                                               *)
(***************************************************************************)
\* `${collection}:${v}`
KeyString(collection, v) == Str(collection \o ":" \o TemplateString(v))

\* the same with a slip: a key of several fields throws as well
GetCacheKeyThrowsOnComposite(key) ==
    key.k = "null" \/ (key.k = "obj" /\ Len(key.kv) > 1)

\* get: Object.keys(key) throws a TypeError when key is null (typeof null is
\* "object"); the statement is outside the try block
GetCacheKeyThrows(key) == key.k = "null"

\* get: the cacheKey of (collection, key); undefined for a key that is neither a
\* string nor an object.  An object key is indexed with the array of its names,
\* that is with the names joined by ","
GetCacheKey(collection, key) ==
    IF TypeOf(key) = "string" THEN KeyString(collection, key)
    ELSE IF TypeOf(key) = "object"
         THEN KeyString(collection, GetProp(key, ArrayToString(ObjectKeys(key))))
         ELSE Undefined

\* set: Object.keys(data) throws a TypeError when data is null or undefined
SetCacheKeyThrows(type, data) == type = "dynamodb" /\ data.k \in {"null", "undefined"}

\* the same with a slip: id is looked at before _id
SetCacheKeyIdFirst(type, collection, keyOrQuery, data, updatedDoc) ==
    IF type = "dynamodb"
    THEN KeyString(collection, GetProp(data, ArrayToString(ObjectKeys(data))))
    ELSE IF Truthy(updatedDoc) /\ Truthy(GetProp(updatedDoc, "id"))
         THEN KeyString(collection, GetProp(updatedDoc, "id"))
         ELSE IF Truthy(updatedDoc) /\ Truthy(GetProp(updatedDoc, "_id"))
              THEN KeyString(collection, GetProp(updatedDoc, "_id"))
              ELSE IF TypeOf(keyOrQuery) = "string"
                   THEN KeyString(collection, keyOrQuery)
                   ELSE Undefined

\* set: the cacheKey after the backend's set returned updatedDoc
SetCacheKey(type, collection, keyOrQuery, data, updatedDoc) ==
    IF type = "dynamodb"
    THEN KeyString(collection, GetProp(data, ArrayToString(ObjectKeys(data))))
    ELSE IF Truthy(updatedDoc) /\ Truthy(GetProp(updatedDoc, "_id"))
         THEN KeyString(collection, GetProp(updatedDoc, "_id"))
         ELSE IF Truthy(updatedDoc) /\ Truthy(GetProp(updatedDoc, "id"))
              THEN KeyString(collection, GetProp(updatedDoc, "id"))
              ELSE IF TypeOf(keyOrQuery) = "string"
                   THEN KeyString(collection, keyOrQuery)
                   ELSE Undefined

\* get: const { useCache, cacheExpiry } = options, the default value of the
\* parameter standing in for an omitted argument only
EffectiveOptions(opts) ==
    IF opts.given THEN [useCache |-> opts.useCache, cacheExpiry |-> opts.cacheExpiry]
    ELSE [useCache |-> FALSE, cacheExpiry |-> DEFAULT_CACHE_EXPIRY]

(***************************************************************************)
(* The cache store adapter FnRedisService over the cluster's key space.    *)
(* The cache maps a key to an entry [text, ttl]; a text is either the      *)
(* empty string or the JSON text of a value; ttl 0 is an entry that does   *)
(* not expire.                                                             *)
(***************************************************************************)
EmptyText == [t |-> "empty", v |-> Undefined]
JsonText(v) == [t |-> "json", v |-> v]

\* set: JSON.stringify(data) is undefined for undefined, and the client sends an
\* undefined argument as the empty string
SerializedData(data) == IF data.k = "undefined" THEN EmptyText ELSE JsonText(data)

\* set: the entry written: with EX when expiresInSeconds is truthy, else without
RedisSet(c, key, data, expiresInSeconds) ==
    [x \in DOMAIN c \cup {key} |->
        IF x = key
        THEN [text |-> SerializedData(data),
              ttl |-> IF expiresInSeconds # 0 THEN expiresInSeconds ELSE 0]
        ELSE c[x]]

\* get with a slip: an absent key is answered with undefined
RedisGetMissUndefined(c, key) ==
    IF key \in DOMAIN c /\ c[key].text.t = "json" THEN c[key].text.v ELSE Undefined

\* get: data ? JSON.parse(data) : null, data being null for an absent key
RedisGet(c, key) ==
    IF key \in DOMAIN c /\ c[key].text.t = "json" THEN c[key].text.v ELSE Null

\* the cache without key
Without(c, key) == [x \in DOMAIN c \ {key} |-> c[x]]

(***************************************************************************)
(* The storage backends.  A store maps (collection, id) to the pairs of    *)
(* the document kept there, in the backend's own form: Firestore keeps the *)
(* fields without the document id, DynamoDB the whole item, MongoDB the    *)
(* document with its _id.  Each operation yields err = TRUE when the       *)
(* backend rejects the arguments.                                          *)
(***************************************************************************)
DbTypes == {"mongodb", "firestore", "redis", "dynamodb", "unsupported"}

\* the methods of the backend class of each type
HasMethod(type, method) ==
    CASE type = "firestore" -> method \in {"get", "set", "fetch"}
      [] type = "dynamodb" -> method \in {"get", "set", "fetch"}
      [] type = "mongodb" -> method \in {"get"}
      [] OTHER -> FALSE

\* the primary key attribute of the DynamoDB tables
TableKey == "id"

\* Firestore: collection(c).doc(docId) wants a non-empty string
ValidDocId(docId) == docId.k = "str" /\ docId.s # ""

FirestoreGet(st, collection, docId) ==
    IF ~ValidDocId(docId) THEN [err |-> TRUE, doc |-> Null]
    ELSE [err |-> FALSE,
          doc |-> IF <<collection, docId.s>> \in DOMAIN st
                  THEN Obj(Spread(<< <<"id", docId.s>> >>, st[<<collection, docId.s>>]))
                  ELSE Null]

\* Firestore: docRef.set(data, {merge: true}); the method returns nothing
FirestoreSet(st, collection, docId, data) ==
    IF ~ValidDocId(docId) \/ data.k # "obj"
    THEN [err |-> TRUE, store |-> st, ret |-> Undefined]
    ELSE LET at == <<collection, docId.s>>
             old == IF at \in DOMAIN st THEN st[at] ELSE << >>
         IN [err |-> FALSE,
             store |-> [x \in DOMAIN st \cup {at} |->
                          IF x = at THEN Spread(old, data.kv) ELSE st[x]],
             ret |-> Undefined]

\* whether the fields satisfy every (field, value) filter of the list
Matches(fields, filters) ==
    \A i \in 1..Len(filters) : GetProp(Obj(fields), filters[i][1]) = Str(filters[i][2])

RECURSIVE FirestoreDocs(_, _, _, _)
FirestoreDocs(st, collection, filters, ids) ==
    IF ids = << >> THEN << >>
    ELSE LET at == <<collection, ids[1]>>
             rest == FirestoreDocs(st, collection, filters, Tail(ids))
         IN IF at \in DOMAIN st /\ Matches(st[at], filters)
            THEN << Obj(Spread(<< <<"id", ids[1]>> >>, st[at])) >> \o rest
            ELSE rest

\* Firestore: `for (const filter of filters)` throws when filters is not iterable
FirestoreFetch(st, collection, filters) ==
    IF filters.k # "arr" THEN [err |-> TRUE, docs |-> << >>]
    ELSE [err |-> FALSE, docs |-> FirestoreDocs(st, collection, filters.kv, IdOrder)]

\* DynamoDB: Key must hold exactly the table's key attribute
DynamoGet(st, collection, primaryKey) ==
    IF ~(primaryKey.k = "obj" /\ ObjectKeys(primaryKey) = <<TableKey>>)
    THEN [err |-> TRUE, doc |-> Null]
    ELSE LET at == <<collection, GetProp(primaryKey, TableKey).s>>
         IN [err |-> FALSE, doc |-> IF at \in DOMAIN st THEN Obj(st[at]) ELSE Null]

\* DynamoDB: PutCommand replaces the item; the method returns data
DynamoSet(st, collection, data) ==
    IF ~HasProp(data, TableKey) THEN [err |-> TRUE, store |-> st, ret |-> Undefined]
    ELSE LET at == <<collection, GetProp(data, TableKey).s>>
         IN [err |-> FALSE,
             store |-> [x \in DOMAIN st \cup {at} |-> IF x = at THEN data.kv ELSE st[x]],
             ret |-> data]

RECURSIVE DynamoItems(_, _, _)
DynamoItems(st, collection, ids) ==
    IF ids = << >> THEN << >>
    ELSE LET at == <<collection, ids[1]>>
             rest == DynamoItems(st, collection, Tail(ids))
         IN IF at \in DOMAIN st THEN << Obj(st[at]) >> \o rest ELSE rest

\* DynamoDB: a Scan of the table, filters ({} or []) adding nothing to it
DynamoFetch(st, collection, filters) ==
    [err |-> FALSE, docs |-> DynamoItems(st, collection, IdOrder)]

\* MongoDB: findOne({_id: new ObjectId(docId)}); the ids of the model stand for
\* well-formed ObjectId strings, a number makes an id no document has, and
\* anything else makes the ObjectId constructor throw
MongoGet(st, collection, docId) ==
    CASE docId.k = "str" ->
           [err |-> FALSE,
            doc |-> IF <<collection, docId.s>> \in DOMAIN st
                    THEN Obj(st[<<collection, docId.s>>]) ELSE Null]
      [] docId.k = "num" -> [err |-> FALSE, doc |-> Null]
      [] OTHER -> [err |-> TRUE, doc |-> Null]

\* this.#dbInstance.get(collection, key)
BackendGet(type, st, collection, key) ==
    CASE type = "firestore" -> FirestoreGet(st, collection, key)
      [] type = "dynamodb" -> DynamoGet(st, collection, key)
      [] OTHER -> MongoGet(st, collection, key)

\* the facade's call of the backend's set: (collection, data) for dynamodb,
\* (collection, keyOrQuery, data) otherwise
BackendSet(type, st, collection, keyOrQuery, data) ==
    IF type = "dynamodb" THEN DynamoSet(st, collection, data)
    ELSE FirestoreSet(st, collection, keyOrQuery, data)

\* the same with a slip: the filters are dropped on the way to the backend
BackendFetchWithoutFilters(type, st, collection, filters) ==
    IF type = "dynamodb" THEN DynamoFetch(st, collection, Arr(<< >>))
    ELSE FirestoreFetch(st, collection, Arr(<< >>))

\* this.#dbInstance.fetch(collection, filters)
BackendFetch(type, st, collection, filters) ==
    IF type = "dynamodb" THEN DynamoFetch(st, collection, filters)
    ELSE FirestoreFetch(st, collection, filters)

\* the document with fields, as the backend of the type keeps it under id
NativeDoc(type, id, fields) ==
    CASE type = "firestore" -> fields
      [] type = "mongodb" -> << <<"_id", id>> >> \o fields
      [] OTHER -> << <<"id", id>> >> \o fields

(***************************************************************************)
(* The state.                                                              *)
(***************************************************************************)
VARIABLES
    dbType,      \* DATABASE_TYPE of the process
    dbInstance,  \* FnDatabaseAdapter.#dbInstance: "unset" or "set"
    modLoad,     \* the module loader's record of the backend module:
                 \* "none" (never imported), "ok" (evaluated), "err" (failed)
    constructed, \* how many times the backend class has been instantiated
    store,       \* the documents of the storage backend
    cache,       \* the entries of the cache cluster
    cacheBy,     \* history: what wrote each entry ("init", "get" or "set")
    calls,       \* the facade calls: one record per call
    started      \* how many calls have been made

\* the state of the facade and of what it calls
adapterVars == <<dbType, dbInstance, modLoad, constructed, store, cache, cacheBy,
                 calls, started>>

VARIABLES
    redisClient,  \* FnRedisService.#client: "none", or the cluster client's status
    clustersMade, \* how many times new Redis.Cluster(...) has been evaluated
    exited,       \* whether process.exit(1) has been called
    ctorConnect,  \* the connect() call of the constructor: "awaiting", "returned"
    redisCalls    \* the calls of FnRedisService.get and set: one record per call

connVars == <<redisClient, clustersMade, exited, ctorConnect, redisCalls>>

VARIABLES
    charges,      \* the charges Stripe holds, by id
    txn           \* the call of getCustomerDetailedTransaction

stripeVars == <<charges, txn>>

VARIABLES
    cluster,      \* the entries of the cluster FnRedis.#cluster talks to
    fnSet,        \* the last call of FnRedis.setWithKey
    fnGet         \* the last call of FnRedis.getWithKey made since

fnRedisVars == <<cluster, fnSet, fnGet>>

VARIABLES
    singles,      \* per class: the static instance (0: unset, else the object's
                  \* number), the objects made, the underlying clients made
    firstGot,     \* history: per class, the first instance a call returned
    lastCall,     \* history: the last getInstance() or new, and what it returned
    invoked       \* how many such calls have been made

singletonVars == <<singles, firstGot, lastCall, invoked>>

\* the state of the services beside the facade
serviceVars == <<connVars, stripeVars, fnRedisVars, singletonVars>>

vars == <<adapterVars, serviceVars>>

\* A call that has not been made.  pc is the awaited operation the call is
\* suspended on; the n* fields count the operations the call has issued; wVal
\* and wTtl are the arguments of the cache write it issued; threw names the
\* awaited operation that threw, if one did.
IdleCall ==
    [pc |-> "idle", op |-> "none", seq |-> 0, collection |-> "", key |-> Undefined,
     data |-> Undefined, opts |-> [given |-> FALSE, useCache |-> FALSE, cacheExpiry |-> 0],
     cacheKey |-> Undefined, doc |-> Undefined, outcome |-> "none",
     result |-> Undefined, docs |-> << >>, hit |-> FALSE,
     nInit |-> 0, nCacheGet |-> 0, nCacheSet |-> 0, nDbGet |-> 0, nDbSet |-> 0,
     nDbFetch |-> 0, wVal |-> Undefined, wTtl |-> 0, threw |-> "none"]

InFlight == {p \in Procs : calls[p].pc \notin {"idle", "done"}}

\* the call returns result (outcome "ok") or throws (outcome names the error)
Finish(c, outcome, result) ==
    [c EXCEPT !.pc = "done", !.outcome = outcome, !.result = result]

\* the backend's method is called: a TypeError when the class has no such method
Issue(c, type) ==
    IF ~HasMethod(type, c.op) THEN Finish(c, "TypeError", Undefined)
    ELSE CASE c.op = "get" -> [c EXCEPT !.pc = "dbGet", !.nDbGet = @ + 1]
           [] c.op = "set" -> [c EXCEPT !.pc = "dbSet", !.nDbSet = @ + 1]
           [] OTHER -> [c EXCEPT !.pc = "dbFetch", !.nDbFetch = @ + 1]

\* initialize() with a slip: a type that is not listed loads a backend too
InitializeAnyType(c, type) == [c EXCEPT !.pc = "import", !.nInit = @ + 1]

\* initialize(), entered with the handle unset: the import of the backend module
\* of the configured type is awaited, or the type is unsupported
Initialize(c, type) ==
    IF type \in {"mongodb", "firestore", "redis", "dynamodb"}
    THEN [c EXCEPT !.pc = "import", !.nInit = @ + 1]
    ELSE Finish([c EXCEPT !.nInit = @ + 1], "ConfigError", Undefined)

\* the same with a slip: initialize() runs whether or not the handle is set
ResolveWithoutHandleTest(c, inst, type) == Initialize(c, type)

\* if (!this.#dbInstance) await this.initialize(); then the backend's method
Resolve(c, inst, type) ==
    IF inst = "set" THEN Issue(c, type) ELSE Initialize(c, type)

\* the guard with a slip: useCache is not looked at
UsesCacheAlways(useCache, cacheKey) == Truthy(cacheKey)

\* get: the guard of the cache lookup and of the cache write
UsesCache(useCache, cacheKey) == useCache /\ Truthy(cacheKey)

\* get, after the try block is entered
GetBody(c, inst, type) ==
    IF UsesCache(EffectiveOptions(c.opts).useCache, c.cacheKey)
    THEN [c EXCEPT !.pc = "cacheGet", !.nCacheGet = @ + 1]
    ELSE Resolve(c, inst, type)

\* the same with a slip: a hit does not return, the backend is asked as well
AfterCacheGetAsksBackend(c, cachedData, inst, type) == Resolve(c, inst, type)

\* get, after the cache lookup answered cachedData
AfterCacheGet(c, cachedData, inst, type) ==
    IF Truthy(cachedData)
    THEN [Finish(c, "ok", cachedData) EXCEPT !.hit = TRUE]
    ELSE Resolve(c, inst, type)

\* the same with a slip: the answer is cached whether or not a document was found
AfterDbGetCachesNotFound(c, doc) ==
    IF UsesCache(EffectiveOptions(c.opts).useCache, c.cacheKey)
    THEN [c EXCEPT !.pc = "cachePut", !.doc = doc, !.nCacheSet = @ + 1,
                   !.wVal = doc, !.wTtl = EffectiveOptions(c.opts).cacheExpiry]
    ELSE Finish([c EXCEPT !.doc = doc], "ok", doc)

\* get, after the backend answered doc
AfterDbGet(c, doc) ==
    IF Truthy(doc) /\ UsesCache(EffectiveOptions(c.opts).useCache, c.cacheKey)
    THEN [c EXCEPT !.pc = "cachePut", !.doc = doc, !.nCacheSet = @ + 1,
                   !.wVal = doc, !.wTtl = EffectiveOptions(c.opts).cacheExpiry]
    ELSE Finish([c EXCEPT !.doc = doc], "ok", doc)

\* set, after the backend's set returned updatedDoc
AfterDbSet(c, type, updatedDoc) ==
    LET ck == SetCacheKey(type, c.collection, c.key, c.data, updatedDoc)
        c1 == [c EXCEPT !.cacheKey = ck, !.doc = updatedDoc]
    IN IF SetCacheKeyThrows(type, c.data) THEN Finish(c, "TypeError", Undefined)
       ELSE IF Truthy(ck)
       THEN [c1 EXCEPT !.pc = "cacheRefresh", !.nCacheSet = @ + 1,
                       !.wVal = updatedDoc, !.wTtl = DEFAULT_CACHE_EXPIRY]
       ELSE Finish(c1, "ok", updatedDoc)

\* the catch of get with a slip: the error is swallowed and null is returned
AfterDbGetFailedReturnsNull(c) == Finish(c, "ok", Null)

\* get, after the backend's get threw: the catch logs and throws the error on
AfterDbGetFailed(c) == Finish(c, "StorageError", Undefined)

\* the same with a slip: the cache is refreshed with data before the error is
\* thrown on
AfterDbSetFailedRefreshes(c) ==
    [c EXCEPT !.pc = "cacheRefresh", !.cacheKey = KeyString(c.collection, c.key),
              !.nCacheSet = @ + 1, !.wVal = c.data, !.wTtl = DEFAULT_CACHE_EXPIRY]

\* set, after the backend's set threw
AfterDbSetFailed(c) == Finish(c, "StorageError", Undefined)

\* what an import of the backend module can answer: the loader evaluates a module
\* once and answers every import of it alike
(***************************************************************************)
(* FnRedisService: the connection of the cache store.                      *)
(***************************************************************************)
\* the statuses of a cluster client of ioredis that the model tells apart; a
\* client is made connecting, and its status is never an empty string
ClusterStatus == {"connecting", "ready", "reconnecting"}

\* connect, line 28: !this.#client || !this.#client.status
NeedsClient(client) == client = "none" \/ ~Truthy(Str(client))

\* a call of get or set that has not been made; issuedAt is the status the
\* client had when the call issued its command on it
IdleRedisCall == [pc |-> "idle", op |-> "none", key |-> "", issuedAt |-> "none",
                  outcome |-> "none"]

\* connect() as called by get and set, up to the command: with a client that
\* has a status the client is returned at once and the command is issued on it;
\* otherwise a client is made and the call waits for it to be ready
Connect(c, client) ==
    IF NeedsClient(client)
    THEN [c EXCEPT !.pc = "connect"]
    ELSE [c EXCEPT !.pc = "command", !.issuedAt = client]

\* the module has been evaluated: new FnRedisService() has run connect() up to
\* its await, so that a client exists and is connecting
InitConn ==
    /\ redisClient = "connecting"
    /\ clustersMade = 1
    /\ exited = FALSE
    /\ ctorConnect = "awaiting"
    /\ redisCalls = [p \in Procs |-> IdleRedisCall]

(***************************************************************************)
(* CustomerStripeService.getCustomerDetailedTransaction and the methods of *)
(* StripeService it calls.                                                 *)
(***************************************************************************)
StripeCustomers == {"cusA", "cusB"}
ChargeIds == {"ch1", "ch2"}

\* a charge as charges.retrieve answers it: customer is null or a customer's
\* id; the charge ch1 has a balance transaction, ch2 has none
Charge(id, customer) ==
    [id |-> id, customer |-> customer, amount |-> "1000",
     balance_transaction |-> (id = "ch1")]

\* the customerId and chargeId the method is called with
CustomerIdArgs == {Undefined, Str("")} \cup {Str(c) : c \in StripeCustomers}
ChargeIdArgs == {Undefined, Str("ch9")} \cup {Str(c) : c \in ChargeIds}

\* getDetailedTransaction, lines 108-119: the names customerName may get
CustomerNames(charge) ==
    IF Truthy(charge.customer)
    THEN { "Name of " \o charge.customer.s,
           "Customer ID: " \o charge.customer.s \o " (details unavailable)" }
    ELSE { "Billing name", "N/A" }

\* getDetailedTransaction, lines 95-136: the merchant's view of the charge
DetailedTransaction(charge, customerName) ==
    Obj(<< <<"id", charge.id>>, <<"status", "succeeded">>,
           <<"total", charge.amount>>, <<"currency", "usd">>,
           <<"fee", IF charge.balance_transaction THEN "59" ELSE "0">>,
           <<"net", IF charge.balance_transaction THEN "941" ELSE charge.amount>>,
           <<"customerName", customerName>>, <<"invoiceId", "in_" \o charge.id>>,
           <<"receiptUrl", "https://receipt/" \o charge.id>>,
           <<"description", "order">>, <<"created", "2024-01-01T00:00:00.000Z">> >>)

\* getCustomerDetailedTransaction, lines 68-79: the object returned
CustomerSafeFields ==
    <<"id", "status", "total", "currency", "customerName", "invoiceId",
      "receiptUrl", "description", "created">>
CustomerSafe(fullTransaction) ==
    Obj([i \in 1..Len(CustomerSafeFields) |->
            <<CustomerSafeFields[i], GetProp(fullTransaction, CustomerSafeFields[i]).s>>])

\* an ownership test that accepts every charge that has a customer
NotOwnerIfNoCustomer(rawCharge, customerId) == ~Truthy(rawCharge.customer)

\* line 60: !rawCharge.customer || rawCharge.customer !== customerId
NotOwner(rawCharge, customerId) ==
    ~Truthy(rawCharge.customer) \/ rawCharge.customer # customerId

\* a call that has not been made; fetched tells whether getChargeById has
\* answered, rawCustomer is the customer of the charge it answered, nDetailed
\* counts the calls of getDetailedTransaction
IdleTxn ==
    [pc |-> "idle", customerId |-> Undefined, chargeId |-> Undefined,
     fetched |-> FALSE, rawCustomer |-> Undefined, nDetailed |-> 0,
     outcome |-> "none", result |-> Undefined]

\* lines 50-57: the arguments are tested, then getChargeById is awaited
TxnBody(t) ==
    IF ~Truthy(t.customerId) \/ ~Truthy(t.chargeId)
    THEN [t EXCEPT !.pc = "done", !.outcome = "Required"]
    ELSE [t EXCEPT !.pc = "getChargeById"]

\* lines 57-65 and 81-87: getChargeById has answered rawCharge; a charge of
\* another customer raises 'Unauthorized', which the catch block throws on as
\* it is; otherwise getDetailedTransaction is awaited
AfterChargeById(t, rawCharge) ==
    IF NotOwner(rawCharge, t.customerId)
    THEN [t EXCEPT !.pc = "done", !.fetched = TRUE,
                   !.rawCustomer = rawCharge.customer, !.outcome = "Unauthorized"]
    ELSE [t EXCEPT !.pc = "getDetailedTransaction", !.fetched = TRUE,
                   !.rawCustomer = rawCharge.customer, !.nDetailed = 1]

\* lines 81-87: an error whose message does not hold 'Unauthorized' is replaced
\* by 'Failed to retrieve detailed transaction for customer ID ...'
TxnFailed(t) == [t EXCEPT !.pc = "done", !.outcome = "Failed"]

\* Stripe holds two charges that have no customer yet; no call is made
InitStripe ==
    /\ charges = [id \in ChargeIds |-> Charge(id, Null)]
    /\ txn = IdleTxn

(***************************************************************************)
(* FnRedis: getWithKey and setWithKey.                                      *)
(***************************************************************************)
\* the bindings of the name key at lines 27 and 57, innermost first: the try
\* block declares key with const, over the parameter key; the const is not
\* initialised while its own initialiser is evaluated
KeyScopes ==
    << [name |-> "key", initialised |-> FALSE],
       [name |-> "key", initialised |-> TRUE] >>

\* reading name throws a ReferenceError when the innermost binding of the
\* name is not initialised
ReadThrows(scopes, name) ==
    LET i == CHOOSE i \in 1..Len(scopes) :
                 /\ scopes[i].name = name
                 /\ \A j \in 1..(i - 1) : scopes[j].name # name
    IN ~scopes[i].initialised

\* lines 27, 57: `FnRedis||${key}`
PrefixedKey(key) == "FnRedis||" \o key

\* no response: the value of a call that ends without a return statement
NoResponse == [cache |-> "none", error |-> "none", data |-> Undefined]

\* getWithKey, lines 26-52, on a cluster that holds the entries cl; fail tells
\* whether the cluster rejects the commands
GetWithKey(cl, key, fail) ==
    IF ReadThrows(KeyScopes, "key")
    THEN [cache |-> "MISS", error |-> "ReferenceError", data |-> Obj(<< >>)]
    ELSE IF fail
    THEN [cache |-> "MISS", error |-> "ClusterError", data |-> Obj(<< >>)]
    ELSE IF PrefixedKey(key) \in DOMAIN cl
    THEN [cache |-> "HIT", error |-> "none", data |-> cl[PrefixedKey(key)].v]
    ELSE NoResponse

\* setWithKey, lines 56-71: the entries of the cluster afterwards and the
\* response; fail tells whether the cluster's set throws
SetWithKey(cl, key, value, fail) ==
    IF ReadThrows(KeyScopes, "key")
    THEN [cluster |-> cl, success |-> FALSE, error |-> "ReferenceError"]
    ELSE IF fail
    THEN [cluster |-> cl, success |-> FALSE, error |-> "ClusterError"]
    ELSE [cluster |-> [x \in DOMAIN cl \cup {PrefixedKey(key)} |->
                          IF x = PrefixedKey(key) THEN SerializedData(value)
                          ELSE cl[x]],
          success |-> TRUE, error |-> "none"]

\* calls that have not been made
IdleFnSet == [made |-> FALSE, key |-> "", value |-> Undefined, fail |-> FALSE,
              success |-> FALSE, error |-> "none"]
IdleFnGet == [made |-> FALSE, key |-> "", fail |-> FALSE, response |-> NoResponse]

\* the cluster holds no entry and no call has been made
InitFnRedis ==
    /\ cluster = << >>
    /\ fnSet = IdleFnSet
    /\ fnGet = IdleFnGet

(***************************************************************************)
(* The singletons StripeService, CustomerStripeService and FnCache.  The   *)
(* operators take the classes' state f and yield the state afterwards, the *)
(* outcome ("ok" or the error thrown) and the object returned.             *)
(***************************************************************************)
NoSingle == [instance |-> 0, objects |-> 0, clients |-> 0]
Returned(f, obj) == [f |-> f, outcome |-> "ok", returned |-> obj]
Thrown(f, error) == [f |-> f, outcome |-> error, returned |-> 0]

\* new StripeService(), part_003 lines 9-23
NewStripeService(f) ==
    IF f.stripe.instance # 0 THEN Returned(f, f.stripe.instance)
    ELSE LET this == f.stripe.objects + 1
         IN Returned([f EXCEPT !.stripe = [instance |-> this, objects |-> this,
                                           clients |-> @.clients + 1]], this)

\* StripeService.getInstance(), part_003 lines 25-30
StripeGetInstance(f) ==
    LET g == IF f.stripe.instance = 0 THEN NewStripeService(f).f ELSE f
    IN Returned(g, g.stripe.instance)

\* new CustomerStripeService(), customer_account.js lines 9-15
NewCustomerStripeService(f) ==
    IF f.customer.instance # 0 THEN Returned(f, f.customer.instance)
    ELSE LET g == StripeGetInstance(f).f
             this == g.customer.objects + 1
         IN Returned([g EXCEPT !.customer = [instance |-> this, objects |-> this,
                                             clients |-> @.clients + 1]], this)

\* CustomerStripeService.getInstance(), customer_account.js lines 17-22
CustomerGetInstance(f) ==
    LET g == IF f.customer.instance = 0 THEN NewCustomerStripeService(f).f ELSE f
    IN Returned(g, g.customer.instance)

\* new FnCache(), FnCache.js lines 7-17: redis tells whether the test of line
\* 11 holds; line 16 assigns to FnRedis.instance, and FnCache.js declares no
\* FnRedis: a ReferenceError
NewFnCache(f, redis) ==
    IF f.cache.instance # 0 THEN Returned(f, f.cache.instance)
    ELSE Thrown([f EXCEPT !.cache.objects = @ + 1,
                          !.cache.clients = IF redis THEN @ + 1 ELSE @],
                "ReferenceError")

\* FnCache.getInstance(), FnCache.js lines 18-23
FnCacheGetInstance(f, redis) ==
    IF f.cache.instance # 0 THEN Returned(f, f.cache.instance)
    ELSE LET r == NewFnCache(f, redis)
         IN IF r.outcome # "ok" THEN r
            ELSE Returned([r.f EXCEPT !.cache.instance = r.returned], r.returned)

\* the classes are defined and no instance has been asked for
InitSingletons ==
    /\ singles = [stripe |-> NoSingle, customer |-> NoSingle, cache |-> NoSingle]
    /\ firstGot = [stripe |-> 0, customer |-> 0, cache |-> 0]
    /\ lastCall = [class |-> "none", via |-> "none", outcome |-> "none", returned |-> 0]
    /\ invoked = 0

\* the services beside the facade as they are after the modules are evaluated
InitService == InitConn /\ InitStripe /\ InitFnRedis /\ InitSingletons

LoadOutcomes(type, ml) ==
    IF ml # "none" THEN {ml}
    ELSE IF type = "redis" THEN {"err"} ELSE {"ok", "err"}

(***************************************************************************)
(* The initial states: the process has just started, the backend holds no  *)
(* document or one, and the cache is empty or holds that document.         *)
(***************************************************************************)
InitFields == << <<"name", "A">> >>
InitDoc(type) == NativeDoc(type, "u1", InitFields)
\* the document a get of u1 answers in the initial store
InitGot(type) ==
    IF type = "firestore" THEN Obj(<< <<"id", "u1">> >> \o InitFields)
    ELSE Obj(InitDoc(type))

Init ==
    /\ InitService
    /\ dbType \in DbTypes
    /\ dbInstance = "unset"
    /\ modLoad = "none"
    /\ constructed = 0
    /\ started = 0
    /\ calls = [p \in Procs |-> IdleCall]
    /\ \E hasDoc \in BOOLEAN, cached \in BOOLEAN :
        /\ (dbType \in {"redis", "unsupported"}) => ~hasDoc
        /\ (dbType \notin {"redis", "unsupported"} /\ cached) => hasDoc
        /\ store = [x \in (IF hasDoc THEN {<<"users", "u1">>} ELSE {}) |-> InitDoc(dbType)]
        /\ cache = [x \in (IF cached THEN {"users:u1"} ELSE {}) |->
                      [text |-> JsonText(InitGot(dbType)), ttl |-> DEFAULT_CACHE_EXPIRY]]
        /\ cacheBy = [x \in (IF cached THEN {"users:u1"} ELSE {}) |-> "init"]

(***************************************************************************)
(* The actions.                                                            *)
(***************************************************************************)
\* the call records in use: two when the calls are made one after the other
Slots(limit) == IF limit = 1 THEN {p \in Procs : p <= 2} ELSE Procs

\* A new call may be made while fewer than limit calls are in flight; it takes
\* the record p of the oldest call that is not in flight.
MayStart(p, limit) ==
    /\ started < MaxCalls
    /\ Cardinality(InFlight) < limit
    /\ p \in Slots(limit) \ InFlight
    /\ \A q \in Slots(limit) \ InFlight :
          \/ calls[p].seq < calls[q].seq
          \/ (calls[p].seq = calls[q].seq /\ p <= q)

NewCall(op, collection, key, data, opts) ==
    [IdleCall EXCEPT !.op = op, !.seq = started + 1, !.collection = collection,
                     !.key = key, !.data = data, !.opts = opts]

\* history: the entry under key is now one that by wrote
Wrote(h, key, by) == [x \in DOMAIN h \cup {key} |-> IF x = key THEN by ELSE h[x]]

\* get(collection, key, options) is called
GetCall(p, limit, args) ==
    /\ MayStart(p, limit)
    /\ \E collection \in Collections, key \in args.getKeys,
          opts \in args.getOptions :
          LET c == NewCall("get", collection, key, Undefined, opts)
          IN calls' = [calls EXCEPT ![p] =
                 IF GetCacheKeyThrows(key) THEN Finish(c, "TypeError", Undefined)
                 ELSE GetBody([c EXCEPT !.cacheKey = GetCacheKey(collection, key)],
                              dbInstance, dbType)]
    /\ started' = started + 1
    /\ UNCHANGED <<serviceVars, dbType, dbInstance, modLoad, constructed, store, cache, cacheBy>>

\* get: redisService.get(cacheKey) answers or throws
CacheGetDone(p) ==
    /\ calls[p].pc = "cacheGet"
    /\ \E fail \in BOOLEAN :
          calls' = [calls EXCEPT ![p] =
              IF fail THEN Finish([@ EXCEPT !.threw = "cacheGet"], "CacheError", Undefined)
              ELSE AfterCacheGet(@, RedisGet(cache, calls[p].cacheKey.s),
                                 dbInstance, dbType)]
    /\ UNCHANGED <<serviceVars, dbType, dbInstance, modLoad, constructed, store, cache, cacheBy,
                   started>>

\* initialize: the import answers; on success the handle is assigned and the
\* caller goes on to the backend's method
ImportDone(p) ==
    /\ calls[p].pc = "import"
    /\ \E r \in LoadOutcomes(dbType, modLoad) :
          /\ modLoad' = r
          /\ constructed' = IF modLoad = "none" /\ r = "ok"
                            THEN constructed + 1 ELSE constructed
          /\ dbInstance' = IF r = "ok" THEN "set" ELSE dbInstance
          /\ calls' = [calls EXCEPT ![p] =
                 IF r = "ok" THEN Issue(@, dbType)
                 ELSE Finish([@ EXCEPT !.threw = "import"], "InitError", Undefined)]
    /\ UNCHANGED <<serviceVars, dbType, store, cache, cacheBy, started>>

\* get: the backend's get answers or throws
DbGetDone(p) ==
    /\ calls[p].pc = "dbGet"
    /\ \E fail \in BOOLEAN :
          LET r == BackendGet(dbType, store, calls[p].collection, calls[p].key)
          IN calls' = [calls EXCEPT ![p] =
                 IF fail \/ r.err
                 THEN AfterDbGetFailed([@ EXCEPT !.threw = "dbGet"])
                 ELSE AfterDbGet(@, r.doc)]
    /\ UNCHANGED <<serviceVars, dbType, dbInstance, modLoad, constructed, store, cache, cacheBy,
                   started>>

\* get: redisService.set(cacheKey, doc, cacheExpiry) answers or throws
CachePutDone(p) ==
    /\ calls[p].pc = "cachePut"
    /\ \E fail \in BOOLEAN :
          /\ calls' = [calls EXCEPT ![p] =
                 IF fail THEN Finish([@ EXCEPT !.threw = "cachePut"], "CacheError", Undefined)
                 ELSE Finish(@, "ok", calls[p].doc)]
          /\ cache' = IF fail THEN cache
                      ELSE RedisSet(cache, calls[p].cacheKey.s, calls[p].wVal,
                                    calls[p].wTtl)
          /\ cacheBy' = IF fail THEN cacheBy
                        ELSE Wrote(cacheBy, calls[p].cacheKey.s, calls[p].op)
    /\ UNCHANGED <<serviceVars, dbType, dbInstance, modLoad, constructed, store, started>>

\* set(collection, keyOrQuery, data) is called
SetCall(p, limit, args) ==
    /\ MayStart(p, limit)
    /\ \E collection \in Collections, keyOrQuery \in args.setKeys,
          data \in args.setData :
          calls' = [calls EXCEPT ![p] =
              Resolve(NewCall("set", collection, keyOrQuery, data, IdleCall.opts),
                      dbInstance, dbType)]
    /\ started' = started + 1
    /\ UNCHANGED <<serviceVars, dbType, dbInstance, modLoad, constructed, store, cache, cacheBy>>

\* set: the backend's set answers or throws
DbSetDone(p) ==
    /\ calls[p].pc = "dbSet"
    /\ \E fail \in BOOLEAN :
          LET r == BackendSet(dbType, store, calls[p].collection, calls[p].key,
                              calls[p].data)
          IN /\ calls' = [calls EXCEPT ![p] =
                    IF fail \/ r.err THEN AfterDbSetFailed([@ EXCEPT !.threw = "dbSet"])
                    ELSE AfterDbSet(@, dbType, r.ret)]
             /\ store' = IF fail \/ r.err THEN store ELSE r.store
    /\ UNCHANGED <<serviceVars, dbType, dbInstance, modLoad, constructed, cache, cacheBy, started>>

\* set: redisService.set(cacheKey, updatedDoc, DEFAULT_CACHE_EXPIRY) answers or
\* throws
CacheRefreshDone(p) ==
    /\ calls[p].pc = "cacheRefresh"
    /\ \E fail \in BOOLEAN :
          /\ calls' = [calls EXCEPT ![p] =
                 IF fail
                 THEN Finish([@ EXCEPT !.threw = "cacheRefresh"], "CacheError", Undefined)
                 ELSE Finish(@, "ok", calls[p].doc)]
          /\ cache' = IF fail THEN cache
                      ELSE RedisSet(cache, calls[p].cacheKey.s, calls[p].wVal,
                                    calls[p].wTtl)
          /\ cacheBy' = IF fail THEN cacheBy
                        ELSE Wrote(cacheBy, calls[p].cacheKey.s, calls[p].op)
    /\ UNCHANGED <<serviceVars, dbType, dbInstance, modLoad, constructed, store, started>>

\* fetch(collection, filters) is called
FetchCall(p, limit, args) ==
    /\ MayStart(p, limit)
    /\ \E collection \in Collections, filters \in args.fetchFilters :
          calls' = [calls EXCEPT ![p] =
              Resolve(NewCall("fetch", collection, filters, Undefined, IdleCall.opts),
                      dbInstance, dbType)]
    /\ started' = started + 1
    /\ UNCHANGED <<serviceVars, dbType, dbInstance, modLoad, constructed, store, cache, cacheBy>>

\* fetch: the backend's fetch answers or throws
DbFetchDone(p) ==
    /\ calls[p].pc = "dbFetch"
    /\ \E fail \in BOOLEAN :
          LET r == BackendFetch(dbType, store, calls[p].collection, calls[p].key)
          IN calls' = [calls EXCEPT ![p] =
                 IF fail \/ r.err
                 THEN Finish([@ EXCEPT !.threw = "dbFetch"], "StorageError", Undefined)
                 ELSE [Finish(@, "ok", Undefined) EXCEPT !.docs = r.docs]]
    /\ UNCHANGED <<serviceVars, dbType, dbInstance, modLoad, constructed, store, cache, cacheBy,
                   started>>

\* the cluster drops an entry whose time to live has run out
Expire ==
    /\ \E key \in DOMAIN cache :
          /\ cache[key].ttl # 0
          /\ cache' = Without(cache, key)
          /\ cacheBy' = Without(cacheBy, key)
    /\ UNCHANGED <<serviceVars, dbType, dbInstance, modLoad, constructed, store, calls, started>>

Step(limit, args) ==
    \/ \E p \in Procs : GetCall(p, limit, args)
    \/ \E p \in Procs : SetCall(p, limit, args)
    \/ \E p \in Procs : FetchCall(p, limit, args)
    \/ \E p \in Procs : CacheGetDone(p)
    \/ \E p \in Procs : ImportDone(p)
    \/ \E p \in Procs : DbGetDone(p)
    \/ \E p \in Procs : CachePutDone(p)
    \/ \E p \in Procs : DbSetDone(p)
    \/ \E p \in Procs : CacheRefreshDone(p)
    \/ \E p \in Procs : DbFetchDone(p)
    \/ Expire

\* calls made concurrently
Next == Step(MaxInFlight, FewArgs)
Spec == Init /\ [][Next]_vars

\* calls made one after the other
NextSeq == Step(1, AllArgs)
SpecSeq == Init /\ [][NextSeq]_vars

(***************************************************************************)
(* The cache store adapter on its own: direct calls of FnRedisService.set  *)
(* and FnRedisService.get.  calls[1] is the last set made and calls[2] the *)
(* last get made since; hit tells whether the key was held when the get    *)
(* was made.                                                               *)
(***************************************************************************)
CacheKeys == {"k1", "k2"}
\* values handed to set: undefined, null, strings, a number, objects
CacheValues ==
    { Undefined, Null, Str(""), Str("a"), Num("0"), Obj(<< >>),
      Obj(<< <<"name", "A">> >>) }
\* expiresInSeconds: 0 stands for an omitted argument
CacheTtls == {0, 60}

InitCache ==
    /\ InitService
    /\ dbType = "firestore"
    /\ dbInstance = "unset"
    /\ modLoad = "none"
    /\ constructed = 0
    /\ started = 0
    /\ store = << >>
    /\ cache = << >>
    /\ cacheBy = << >>
    /\ calls = [p \in Procs |-> IdleCall]

\* redisService.set(key, data, expiresInSeconds): the client stores the entry, or
\* fails and the error is thrown on
RedisSetCall ==
    /\ \E key \in CacheKeys, data \in CacheValues, ttl \in CacheTtls, fail \in BOOLEAN :
          /\ cache' = IF fail THEN cache ELSE RedisSet(cache, key, data, ttl)
          /\ cacheBy' = IF fail THEN cacheBy ELSE Wrote(cacheBy, key, "set")
          /\ calls' = [calls EXCEPT
                 ![1] = [IdleCall EXCEPT !.op = "cacheSet", !.pc = "done",
                            !.cacheKey = Str(key), !.wVal = data, !.wTtl = ttl,
                            !.nCacheSet = 1,
                            !.outcome = IF fail THEN "CacheError" ELSE "ok",
                            !.threw = IF fail THEN "cacheSet" ELSE "none"],
                 ![2] = IdleCall]
    /\ UNCHANGED <<serviceVars, dbType, dbInstance, modLoad, constructed, store, started>>

\* redisService.get(key): the client answers and the text is parsed, or the
\* client fails and the error is thrown on
RedisGetCall ==
    /\ \E key \in CacheKeys, fail \in BOOLEAN :
          calls' = [calls EXCEPT
              ![2] = [IdleCall EXCEPT !.op = "cacheGet", !.pc = "done",
                         !.cacheKey = Str(key), !.nCacheGet = 1,
                         !.hit = key \in DOMAIN cache,
                         !.result = IF fail THEN Undefined ELSE RedisGet(cache, key),
                         !.outcome = IF fail THEN "CacheError" ELSE "ok",
                         !.threw = IF fail THEN "cacheGet" ELSE "none"]]
    /\ UNCHANGED <<serviceVars, dbType, dbInstance, modLoad, constructed, store, cache, cacheBy,
                   started>>

NextCache == RedisSetCall \/ RedisGetCall \/ Expire
SpecCache == InitCache /\ [][NextCache]_vars

(***************************************************************************)
(* The derivation of cache keys on its own, over keys and documents of     *)
(* every shape: calls[1] is a set whose backend has just returned          *)
(* updatedDoc, calls[2] a get that has just derived its key.               *)
(***************************************************************************)
\* keyOrQuery of set: a string, a query object, a number
KeyQueries == { Str("u1"), Obj(<< <<"id", "u1">> >>), Num("7") }
\* what a backend's set may return
KeyDocs ==
    { Undefined, Null,
      Obj(<< <<"_id", "m1">>, <<"id", "u2">> >>),
      Obj(<< <<"_id", "m1">>, <<"name", "B">> >>),
      Obj(<< <<"id", "u2">>, <<"name", "B">> >>),
      Obj(<< <<"name", "B">> >>),
      Obj(<< <<"_id", "">>, <<"id", "u2">> >>) }
\* keys of get, null and the empty object among them
KeyKeys == GetKeys \cup { Null, Obj(<< >>), Obj(<< <<"sk", "s1">>, <<"pk", "u1">> >>) }

InitKey ==
    /\ InitService
    /\ dbType \in {"mongodb", "firestore", "dynamodb"}
    /\ dbInstance = "set"
    /\ modLoad = "ok"
    /\ constructed = 1
    /\ started = 0
    /\ store = << >>
    /\ cache = << >>
    /\ cacheBy = << >>
    /\ calls = [p \in Procs |-> IdleCall]

\* set, lines 86-99: the cache key is derived once the backend's set has returned
DeriveSetKey ==
    /\ \E keyOrQuery \in KeyQueries, data \in SetData \cup {Undefined},
          updatedDoc \in KeyDocs :
          calls' = [calls EXCEPT ![1] =
              AfterDbSet([NewCall("set", "users", keyOrQuery, data, IdleCall.opts)
                             EXCEPT !.pc = "dbSet", !.nDbSet = 1],
                         dbType, updatedDoc)]
    /\ UNCHANGED <<serviceVars, dbType, dbInstance, modLoad, constructed, store, cache, cacheBy,
                   started>>

\* get, lines 40-46: the cache key is derived before the try block is entered
DeriveGetKey ==
    /\ \E key \in KeyKeys, opts \in GetOptions :
          LET c == NewCall("get", "users", key, Undefined, opts)
          IN calls' = [calls EXCEPT ![2] =
                 IF GetCacheKeyThrows(key) THEN Finish(c, "TypeError", Undefined)
                 ELSE GetBody([c EXCEPT !.cacheKey = GetCacheKey("users", key)],
                              dbInstance, dbType)]
    /\ UNCHANGED <<serviceVars, dbType, dbInstance, modLoad, constructed, store, cache, cacheBy,
                   started>>

NextKey == DeriveSetKey \/ DeriveGetKey
SpecKey == InitKey /\ [][NextKey]_vars

(***************************************************************************)
(* The connection of the cache store on its own: get and set are called    *)
(* while the client made by the constructor connects, is ready, or has     *)
(* lost its connection.                                                    *)
(***************************************************************************)
InitConnOnly ==
    /\ InitService
    /\ dbType = "firestore"
    /\ dbInstance = "unset"
    /\ modLoad = "none"
    /\ constructed = 0
    /\ started = 0
    /\ store = << >>
    /\ cache = << >>
    /\ cacheBy = << >>
    /\ calls = [p \in Procs |-> IdleCall]

\* redisService.get(key) or set(key, ...) is called: lines 60-61 and 78-83
RedisCall(p) ==
    /\ ~exited
    /\ redisCalls[p].pc \in {"idle", "done"}
    /\ \E op \in {"get", "set"}, key \in CacheKeys :
          LET c == Connect([IdleRedisCall EXCEPT !.op = op, !.key = key], redisClient)
          IN /\ redisCalls' = [redisCalls EXCEPT ![p] = c]
             /\ redisClient' = IF c.pc = "connect" THEN "connecting" ELSE redisClient
             /\ clustersMade' = IF c.pc = "connect" THEN clustersMade + 1
                                 ELSE clustersMade
    /\ UNCHANGED <<adapterVars, stripeVars, fnRedisVars, singletonVars, exited, ctorConnect>>

\* the client emits 'ready' (lines 36-39): every connect() that awaits it
\* returns the client, and the calls that waited issue their commands
ClientReady ==
    /\ ~exited
    /\ redisClient \in {"connecting", "reconnecting"}
    /\ redisClient' = "ready"
    /\ ctorConnect' = "returned"
    /\ redisCalls' = [p \in Procs |->
          IF redisCalls[p].pc = "connect"
          THEN [redisCalls[p] EXCEPT !.pc = "command", !.issuedAt = "ready"]
          ELSE redisCalls[p]]
    /\ UNCHANGED <<adapterVars, stripeVars, fnRedisVars, singletonVars, clustersMade, exited>>

\* the client emits 'error' while a connect() awaits 'ready' (lines 40-48): the
\* promise is rejected and the process exits
ClientError ==
    /\ ~exited
    /\ redisClient = "connecting"
    /\ \E w \in {ctorConnect} \cup {redisCalls[p].pc : p \in Procs} :
          w \in {"awaiting", "connect"}
    /\ exited' = TRUE
    /\ UNCHANGED <<adapterVars, stripeVars, fnRedisVars, singletonVars, redisClient, clustersMade, ctorConnect, redisCalls>>

\* the ready client loses its connection: the error is logged (line 33) and
\* the client reconnects
ClientLost ==
    /\ ~exited
    /\ redisClient = "ready"
    /\ redisClient' = "reconnecting"
    /\ UNCHANGED <<adapterVars, stripeVars, fnRedisVars, singletonVars, clustersMade, exited, ctorConnect, redisCalls>>

\* the command of a call is answered by the ready client, or fails and the
\* error is thrown on (lines 63-66, 86-89)
CommandDone(p) ==
    /\ ~exited
    /\ redisCalls[p].pc = "command"
    /\ \E outcome \in {"ok", "CacheError"} :
          /\ (outcome = "ok") => redisClient = "ready"
          /\ redisCalls' = [redisCalls EXCEPT ![p].pc = "done", ![p].outcome = outcome]
    /\ UNCHANGED <<adapterVars, stripeVars, fnRedisVars, singletonVars, redisClient, clustersMade, exited, ctorConnect>>

NextConn ==
    \/ \E p \in Procs : RedisCall(p)
    \/ ClientReady
    \/ ClientError
    \/ ClientLost
    \/ \E p \in Procs : CommandDone(p)
SpecConn == InitConnOnly /\ [][NextConn]_vars

(***************************************************************************)
(* The customer's view of a charge on its own: calls of                    *)
(* getCustomerDetailedTransaction, one after the other, while Stripe       *)
(* attaches customers to charges that have none.                           *)
(***************************************************************************)
InitStripeOnly == InitConnOnly

\* getCustomerDetailedTransaction({customerId, chargeId}) is called
TxnCall ==
    /\ txn.pc \in {"idle", "done"}
    /\ \E customerId \in CustomerIdArgs, chargeId \in ChargeIdArgs :
          txn' = TxnBody([IdleTxn EXCEPT !.customerId = customerId,
                                         !.chargeId = chargeId])
    /\ UNCHANGED <<adapterVars, connVars, fnRedisVars, singletonVars, charges>>

\* getChargeById (part_003, lines 71-85) answers the charge, or throws when
\* Stripe has no such charge or fails
ChargeByIdDone ==
    /\ txn.pc = "getChargeById"
    /\ \E fail \in BOOLEAN :
          txn' = IF fail \/ txn.chargeId.s \notin DOMAIN charges
                 THEN TxnFailed(txn)
                 ELSE AfterChargeById(txn, charges[txn.chargeId.s])
    /\ UNCHANGED <<adapterVars, connVars, fnRedisVars, singletonVars, charges>>

\* getDetailedTransaction (part_003, lines 87-142) answers the merchant's
\* view of the charge as Stripe holds it now, or throws
DetailedDone ==
    /\ txn.pc = "getDetailedTransaction"
    /\ \E fail \in BOOLEAN :
          IF fail \/ txn.chargeId.s \notin DOMAIN charges
          THEN txn' = TxnFailed(txn)
          ELSE \E name \in CustomerNames(charges[txn.chargeId.s]) :
                  txn' = [txn EXCEPT !.pc = "done", !.outcome = "ok",
                             !.result = CustomerSafe(DetailedTransaction(
                                            charges[txn.chargeId.s], name))]
    /\ UNCHANGED <<adapterVars, connVars, fnRedisVars, singletonVars, charges>>

\* Stripe attaches a customer to a charge that has none; the customer of a
\* charge that has one is never changed
AttachCustomer ==
    /\ \E id \in ChargeIds, c \in StripeCustomers :
          /\ charges[id].customer = Null
          /\ charges' = [charges EXCEPT ![id].customer = Str(c)]
    /\ UNCHANGED <<adapterVars, connVars, fnRedisVars, singletonVars, txn>>

NextStripe == TxnCall \/ ChargeByIdDone \/ DetailedDone \/ AttachCustomer
SpecStripe == InitStripeOnly /\ [][NextStripe]_vars

(***************************************************************************)
(* FnRedis on its own: calls of setWithKey and getWithKey on an instance,  *)
(* one after the other.                                                    *)
(***************************************************************************)
InitFnRedisOnly == InitConnOnly

\* the values handed to setWithKey
FnValues == CacheValues \ {Undefined}

\* setWithKey({key, value}) is called
FnSetCall ==
    /\ \E key \in CacheKeys, value \in FnValues, fail \in BOOLEAN :
          LET r == SetWithKey(cluster, key, value, fail)
          IN /\ cluster' = r.cluster
             /\ fnSet' = [made |-> TRUE, key |-> key, value |-> value, fail |-> fail,
                          success |-> r.success, error |-> r.error]
             /\ fnGet' = IdleFnGet
    /\ UNCHANGED <<adapterVars, connVars, stripeVars, singletonVars>>

\* getWithKey({key}) is called
FnGetCall ==
    /\ \E key \in CacheKeys, fail \in BOOLEAN :
          fnGet' = [made |-> TRUE, key |-> key, fail |-> fail,
                    response |-> GetWithKey(cluster, key, fail)]
    /\ UNCHANGED <<adapterVars, connVars, stripeVars, singletonVars, cluster, fnSet>>

NextFnRedis == FnSetCall \/ FnGetCall
SpecFnRedis == InitFnRedisOnly /\ [][NextFnRedis]_vars

(***************************************************************************)
(* The singletons on their own: getInstance() and new are called on the    *)
(* three classes in any order, the calls the modules make when they are    *)
(* evaluated among them.                                                   *)
(***************************************************************************)
InitSingletonsOnly == InitConnOnly

\* a call on class that ended as r: the classes' state and the history
Invoked(class, via, r) ==
    /\ invoked' = invoked + 1
    /\ singles' = r.f
    /\ lastCall' = [class |-> class, via |-> via, outcome |-> r.outcome,
                    returned |-> r.returned]
    /\ firstGot' = IF firstGot[class] = 0 /\ r.outcome = "ok"
                   THEN [firstGot EXCEPT ![class] = r.returned]
                   ELSE firstGot
    /\ UNCHANGED <<adapterVars, connVars, stripeVars, fnRedisVars>>

StripeServiceNew ==
    /\ invoked < MaxCalls
    /\ Invoked("stripe", "new", NewStripeService(singles))

StripeServiceGetInstance ==
    /\ invoked < MaxCalls
    /\ Invoked("stripe", "getInstance", StripeGetInstance(singles))

CustomerStripeServiceNew ==
    /\ invoked < MaxCalls
    /\ Invoked("customer", "new", NewCustomerStripeService(singles))

CustomerStripeServiceGetInstance ==
    /\ invoked < MaxCalls
    /\ Invoked("customer", "getInstance", CustomerGetInstance(singles))

FnCacheNew ==
    /\ invoked < MaxCalls
    /\ \E redis \in BOOLEAN : Invoked("cache", "new", NewFnCache(singles, redis))

FnCacheGetInstanceCall ==
    /\ invoked < MaxCalls
    /\ \E redis \in BOOLEAN :
          Invoked("cache", "getInstance", FnCacheGetInstance(singles, redis))

NextSingletons ==
    \/ StripeServiceNew
    \/ StripeServiceGetInstance
    \/ CustomerStripeServiceNew
    \/ CustomerStripeServiceGetInstance
    \/ FnCacheNew
    \/ FnCacheGetInstanceCall
SpecSingletons == InitSingletonsOnly /\ [][NextSingletons]_vars

(***************************************************************************)
(* Properties.                                                             *)
(***************************************************************************)
Done(p) == calls[p].pc = "done"
Gets == {p \in Procs : calls[p].op = "get"}
Sets == {p \in Procs : calls[p].op = "set"}
UseCacheOf(p) == EffectiveOptions(calls[p].opts).useCache

\* C1: single-flight initialization.  While the handle is unset, at most one
\* initialization is in flight, the backend is constructed at most once, and the
\* calls that went through initialize() all proceed or all fail.
C1_SingleFlight ==
    /\ Cardinality({p \in Procs : calls[p].pc = "import"}) <= 1
    /\ constructed <= 1
    /\ \A p, q \in Procs :
          (Done(p) /\ Done(q) /\ calls[p].nInit = 1 /\ calls[q].nInit = 1)
             => ((calls[p].outcome \in {"InitError", "ConfigError"})
                   <=> (calls[q].outcome \in {"InitError", "ConfigError"}))

\* C2: a cache lookup that throws during get does not fail the get: the call
\* returns the backend's document.
C2_LookupFailureDegrades ==
    \A p \in Gets : calls[p].threw = "cacheGet" => calls[p].outcome = "ok"

\* C3, as claimed: with an unsupported DATABASE_TYPE every finished call has
\* failed with the configuration error (a call whose cache lookup threw aside,
\* which C2 is about) and the handle is unset.
C3_AlwaysConfigError ==
    dbType = "unsupported" =>
       /\ dbInstance = "unset"
       /\ \A p \in Procs :
             (Done(p) /\ calls[p].threw = "none") => calls[p].outcome = "ConfigError"

\* C3, amended: with an unsupported DATABASE_TYPE the handle stays unset, no
\* backend module is loaded, and every finished call has failed with the
\* configuration error, except a get with useCache whose cache lookup answered:
\* a hit returns the cached value, and a lookup that throws fails the get with
\* the cache's error.
C3_ConfigErrorUnlessCacheAnswers ==
    dbType = "unsupported" =>
       /\ dbInstance = "unset" /\ modLoad = "none" /\ constructed = 0
       /\ \A p \in Procs :
             /\ calls[p].pc \notin {"import", "dbGet", "dbSet", "dbFetch", "cachePut",
                                    "cacheRefresh"}
             /\ Done(p) =>
                   \/ calls[p].outcome = "ConfigError" /\ calls[p].nInit = 1
                   \/ /\ calls[p].op = "get" /\ UseCacheOf(p) /\ calls[p].nCacheGet = 1
                      /\ calls[p].nInit = 0
                      /\ \/ calls[p].outcome = "ok" /\ calls[p].hit
                         \/ calls[p].outcome = "CacheError" /\ calls[p].threw = "cacheGet"

\* C3, witness: under an unsupported type a get has returned a cached value and
\* another call has failed with the configuration error.
C3_Witness ==
    /\ dbType = "unsupported"
    /\ \E p \in Gets : Done(p) /\ calls[p].hit /\ calls[p].outcome = "ok"
    /\ \E p \in Procs : Done(p) /\ calls[p].outcome = "ConfigError"

\* C4: a get with useCache false issues no cache call, neither a lookup nor a
\* write, at any point of the call.
C4_NoCacheCallWithoutUseCache ==
    \A p \in Gets :
       ~UseCacheOf(p) =>
          /\ calls[p].nCacheGet = 0 /\ calls[p].nCacheSet = 0
          /\ calls[p].pc \notin {"cacheGet", "cachePut"}

\* C4, witness: a get with useCache false and a key a cache key derives from
\* has returned the document the backend found.
C4_Witness ==
    \E p \in Gets :
       /\ Done(p) /\ ~UseCacheOf(p) /\ calls[p].outcome = "ok"
       /\ Truthy(calls[p].cacheKey) /\ Truthy(calls[p].result)

\* C5: when the cache lookup of a get answers a value (a hit), the call returns
\* that value at once and has called neither initialize() nor the backend.
C5_HitReturnsCachedValue ==
    [][\A p \in Gets :
          LET cachedData == RedisGet(cache, calls[p].cacheKey.s)
          IN (/\ calls[p].pc = "cacheGet" /\ calls'[p].pc # "cacheGet"
              /\ calls'[p].threw = "none" /\ Truthy(cachedData))
                => /\ calls'[p].pc = "done" /\ calls'[p].outcome = "ok"
                   /\ calls'[p].result = cachedData
                   /\ calls'[p].nInit = 0 /\ calls'[p].nDbGet = 0
                   /\ dbInstance' = dbInstance /\ store' = store]_vars

\* C5, witness: a get has returned from a cache hit while the handle is unset.
C5_Witness ==
    \E p \in Gets :
       /\ Done(p) /\ calls[p].hit /\ calls[p].outcome = "ok"
       /\ calls[p].nDbGet = 0 /\ dbInstance = "unset"

\* the entity a set writes and the entity a get reads, as the backend of the
\* type addresses them
EntityOfSet(type, c) ==
    IF type = "dynamodb" THEN <<c.collection, GetProp(c.data, TableKey).s>>
    ELSE <<c.collection, c.key.s>>
EntityOfGet(type, c) ==
    IF type = "dynamodb" THEN <<c.collection, GetProp(c.key, TableKey).s>>
    ELSE <<c.collection, c.key.s>>

\* whether v holds every property of the object d, with d's value
HoldsFieldsOf(v, d) ==
    \A i \in 1..Len(d.kv) : GetProp(v, d.kv[i][1]) = Str(d.kv[i][2])

\* s is a set(c, k, d) with a scalar key that returned, and g the next call, a
\* get(c, k, {useCache: true}) that returned
SetThenGet(s, g) ==
    /\ Done(s) /\ calls[s].outcome = "ok" /\ calls[s].key.k \in {"str", "num"}
    /\ Done(g) /\ calls[g].seq = calls[s].seq + 1
    /\ calls[g].collection = calls[s].collection /\ calls[g].key = calls[s].key
    /\ UseCacheOf(g) /\ calls[g].outcome = "ok"

\* C6: set(c, k, d) followed by get(c, k, {useCache: true}) returns d and is
\* never staler than that write.  Stated in its weakest form: the value the get
\* returns carries every field of d, whatever the backend adds to it and
\* wherever it was read from.
C6_SetThenGetReturnsData ==
    \A s \in Sets, g \in Gets :
       SetThenGet(s, g) => HoldsFieldsOf(calls[g].result, calls[s].data)

\* C7: every set that returned issued one cache write, with DEFAULT_CACHE_EXPIRY
\* as TTL and the updated document (an object with the fields written) as value.
C7_SetRefreshesCacheWithDoc ==
    \A p \in Sets :
       (Done(p) /\ calls[p].outcome = "ok") =>
          /\ calls[p].nCacheSet = 1 /\ calls[p].wTtl = DEFAULT_CACHE_EXPIRY
          /\ calls[p].wVal.k = "obj" /\ HoldsFieldsOf(calls[p].wVal, calls[p].data)

\* C8: when a cached get has populated the cache entry of an entity and a set
\* of that entity has returned, the next get(c, k, {useCache: true}) of the entity
\* returns the document the backend holds after the write, not the one from
\* before it.
C8_NoStaleReadAfterWrite ==
    \A s \in Sets, g \in Gets :
       (/\ Done(s) /\ calls[s].outcome = "ok"
        /\ Done(g) /\ calls[g].seq = calls[s].seq + 1
        /\ EntityOfGet(dbType, calls[g]) = EntityOfSet(dbType, calls[s])
        /\ UseCacheOf(g) /\ calls[g].outcome = "ok"
        /\ calls[g].cacheKey.s \in DOMAIN cacheBy
        /\ cacheBy[calls[g].cacheKey.s] = "get")
          => calls[g].result =
                BackendGet(dbType, store, calls[g].collection, calls[g].key).doc

\* C9: a cache refresh that throws during set does not fail the set: the call
\* returns the updated document.
C9_RefreshFailureDoesNotFailSet ==
    \A p \in Sets :
       calls[p].threw = "cacheRefresh" =>
          calls[p].outcome = "ok" /\ calls[p].result = calls[p].doc

\* C10: when the backend's set throws, the set fails with that error and has
\* issued no cache call, so the cache is as it was.
C10_BackendWriteFailureLeavesCache ==
    \A p \in Sets :
       calls[p].threw = "dbSet" =>
          /\ Done(p) /\ calls[p].outcome = "StorageError"
          /\ calls[p].nCacheSet = 0 /\ calls[p].nCacheGet = 0

\* C10, witness: a set has failed in the backend's set while the cache holds an
\* entry.
C10_Witness ==
    \E p \in Sets :
       /\ calls[p].threw = "dbSet" /\ calls[p].nDbSet = 1
       /\ DOMAIN cache # {}

\* C11: when the backend's get throws during get, the call fails with that
\* error and has issued no cache write; the cache holds what it held.
C11_BackendGetFailurePropagates ==
    [][\A p \in Procs :
          (calls[p].pc = "dbGet" /\ calls'[p].threw = "dbGet") =>
             /\ calls'[p].pc = "done" /\ calls'[p].outcome = "StorageError"
             /\ calls'[p].nCacheSet = 0
             /\ cache' = cache]_vars

\* C11, witness: a get with useCache and a cache key has failed in the
\* backend's get while the store holds the document it asked for.
C11_Witness ==
    \E p \in Gets :
       /\ Done(p) /\ calls[p].threw = "dbGet" /\ UseCacheOf(p)
       /\ Truthy(calls[p].cacheKey)
       /\ <<calls[p].collection, "u1">> \in DOMAIN store

C13_SameEntitySameCacheKey ==
    \A g \in Gets, s \in Sets :
       (/\ calls[s].nDbSet = 1 /\ calls[s].pc \in {"cacheRefresh", "done"}
        /\ calls[s].threw # "dbSet"
        /\ calls[g].outcome # "TypeError"
        /\ EntityOfGet(dbType, calls[g]) = EntityOfSet(dbType, calls[s])
        /\ EntityOfGet(dbType, calls[g])[2] # "")
          => calls[g].cacheKey = calls[s].cacheKey

\* C14: for a scalar key, a string or a number, the cache key of get is
\* "{collection}:{key}", and a get with useCache looks the key up in the cache.
C14_ScalarKeyDerivesCacheKey ==
    \A g \in Gets :
       calls[g].key.k \in {"str", "num"} =>
          /\ calls[g].cacheKey = Str(calls[g].collection \o ":" \o calls[g].key.s)
          /\ UseCacheOf(g) => calls[g].nCacheGet = 1

\* C15: the cache write of a get carries the caller's cacheExpiry as TTL, and
\* DEFAULT_CACHE_EXPIRY when the caller's options have no cacheExpiry; an entry
\* written by get always has a TTL.
C15_GetWritesCacheWithTtl ==
    /\ \A g \in Gets :
          calls[g].nCacheSet = 1 =>
             calls[g].wTtl = IF calls[g].opts.given /\ calls[g].opts.cacheExpiry # 0
                             THEN calls[g].opts.cacheExpiry
                             ELSE DEFAULT_CACHE_EXPIRY
    /\ \A key \in DOMAIN cache : cacheBy[key] = "get" => cache[key].ttl # 0

\* C16: a cache write that throws during get does not fail the get: the call
\* returns the document the backend returned.
C16_CachePutFailureDoesNotFailGet ==
    \A g \in Gets :
       calls[g].threw = "cachePut" =>
          /\ calls[g].outcome = "ok"
          /\ calls[g].result = calls[g].doc

\* C17: when the cache refresh of a set has thrown, the next get(c, k,
\* {useCache: true}) of the entity written reads the store and writes the stored
\* document to the cache.
C17_ConvergesAfterRefreshFailure ==
    \A s \in Sets, g \in Gets :
       (/\ Done(s) /\ calls[s].threw = "cacheRefresh"
        /\ Done(g) /\ calls[g].seq = calls[s].seq + 1
        /\ UseCacheOf(g) /\ calls[g].threw = "none"
        /\ EntityOfGet(dbType, calls[g]) = EntityOfSet(dbType, calls[s])
        /\ EntityOfGet(dbType, calls[g])[2] # "")
          => LET stored == BackendGet(dbType, store, calls[g].collection,
                                      calls[g].key).doc
             IN /\ calls[g].nDbGet = 1 /\ calls[g].result = stored
                /\ calls[g].nCacheSet = 1 /\ calls[g].wVal = stored

\* a get of the key of the last set, made after it, answered by the client while
\* the entry was held
GetAfterSet ==
    /\ calls[1].op = "cacheSet" /\ calls[1].outcome = "ok"
    /\ calls[2].op = "cacheGet" /\ calls[2].threw = "none"
    /\ calls[2].cacheKey = calls[1].cacheKey /\ calls[2].hit

C19_HandleLifecycle ==
    [][/\ dbInstance = "set" => dbInstance' = "set"
       /\ constructed' >= constructed /\ constructed' <= 1
       /\ dbInstance' = "set" => constructed' = 1
       /\ \A p \in Procs :
             (calls'[p].nInit > (IF calls'[p].seq = calls[p].seq
                                 THEN calls[p].nInit ELSE 0))
                => dbInstance = "unset"]_vars

\* C19, witness: with the handle set and one backend instance made, a call that
\* never invoked initialize() has got its answer from the backend.
C19_Witness ==
    /\ dbInstance = "set" /\ constructed = 1
    /\ \E p \in Procs :
          /\ Done(p) /\ calls[p].outcome = "ok" /\ calls[p].nInit = 0
          /\ calls[p].nDbGet + calls[p].nDbSet + calls[p].nDbFetch = 1
    /\ \E q \in Procs : calls[q].nInit = 1

\* C20: a failed initialization does not wedge the facade: the failing call
\* throws the initialization error, the handle stays unset, and the
\* initialization a later call attempts is a new attempt, one that can succeed.
C20_RetryCanSucceed ==
    \A p \in Procs :
       (/\ dbType \in {"mongodb", "firestore", "dynamodb"}
        /\ Done(p) /\ calls[p].threw = "import")
          => /\ calls[p].outcome = "InitError"
             /\ dbInstance = "unset"
             /\ "ok" \in LoadOutcomes(dbType, modLoad)

\* C21: when the backend's get finds no record, get returns null and issues no
\* cache write, with and without useCache; no entry written by a get holds
\* anything but a document.
C21_NotFoundIsNotCached ==
    [][/\ \A p \in Procs :
             (/\ calls[p].pc = "dbGet" /\ calls'[p].pc # "dbGet"
              /\ calls'[p].threw = "none"
              /\ BackendGet(dbType, store, calls[p].collection, calls[p].key).doc = Null)
                => /\ calls'[p].pc = "done" /\ calls'[p].outcome = "ok"
                   /\ calls'[p].result = Null
                   /\ calls'[p].nCacheSet = 0
                   /\ cache' = cache
       /\ \A key \in DOMAIN cache' :
             cacheBy'[key] = "get" =>
                (cache'[key].text.t = "json" /\ cache'[key].text.v.k = "obj")]_vars

\* C21, witness: a get with useCache and a cache key has returned null from the
\* backend after a cache miss.
C21_Witness ==
    \E p \in Gets :
       /\ Done(p) /\ calls[p].outcome = "ok" /\ calls[p].result = Null
       /\ UseCacheOf(p) /\ calls[p].nCacheGet = 1 /\ calls[p].nDbGet = 1
       /\ calls[p].nCacheSet = 0

\* the value of the property name of the document when it is truthy, else ""
IdOf(doc, name) ==
    IF doc.k = "obj" /\ Truthy(GetProp(doc, name)) THEN GetProp(doc, name).s ELSE ""

C23_KeyDerivationIsTotal ==
    /\ (calls[2].op = "get" /\ calls[2].key.k \in {"str", "num", "obj"}) =>
          /\ calls[2].outcome # "TypeError"
          /\ calls[2].cacheKey.k \in {"str", "undefined"}
          /\ calls[2].pc \in {"cacheGet", "dbGet"}
    /\ (calls[1].op = "set" /\ calls[1].data.k = "obj") =>
          /\ calls[1].outcome # "TypeError"
          /\ calls[1].cacheKey.k \in {"str", "undefined"}
    /\ cache = << >> /\ store = << >>

\* C23, witness: a get with a key of two fields and a set of an item of two
\* fields have both derived a cache key.
C23_Witness ==
    /\ calls[2].op = "get" /\ Len(calls[2].key.kv) = 2 /\ calls[2].cacheKey.k = "str"
    /\ calls[1].op = "set" /\ calls[1].data.k = "obj" /\ Len(calls[1].data.kv) = 2
    /\ calls[1].cacheKey.k = "str"

\* whether the document holds the value among its fields
HoldsValue(doc, value) ==
    doc.k = "obj" /\ \E j \in 1..Len(doc.kv) : doc.kv[j][2] = value

\* C24: distinct keys have distinct cache entries: a get answered from the
\* cache returns a document of the key it was asked for, one that holds the
\* string key as a value (its id), or every value of an object key.
C24_CacheHitIsOfTheKeyAsked ==
    \A g \in Gets :
       (Done(g) /\ calls[g].hit) =>
          IF calls[g].key.k = "obj"
          THEN \A i \in 1..Len(calls[g].key.kv) :
                  HoldsValue(calls[g].result, calls[g].key.kv[i][2])
          ELSE HoldsValue(calls[g].result, calls[g].key.s)

\* C25: the cache store keeps a single cluster client: at most one client is
\* ever made, and every command of a get or set is issued on a client that
\* is ready.
C25_OneClientReadyBeforeCommand ==
    /\ clustersMade <= 1
    /\ \A p \in Procs :
          redisCalls[p].pc \in {"command", "done"} => redisCalls[p].issuedAt = "ready"

\* C26: getCustomerDetailedTransaction never discloses another customer's
\* charge: getDetailedTransaction is called, and details are returned, only
\* after the raw charge was found to have a customer equal to customerId; a
\* raw charge of another customer or of none raises 'Unauthorized' as it is;
\* the details returned are those of the charge asked for, which is the
\* customer's, and hold neither fee nor net.
C26_OnlyTheOwnerSeesTheCharge ==
    /\ (txn.nDetailed > 0 \/ txn.result # Undefined) =>
          /\ txn.fetched
          /\ Truthy(txn.rawCustomer)
          /\ txn.rawCustomer = txn.customerId
    /\ (txn.fetched /\ (txn.rawCustomer = Null \/ txn.rawCustomer # txn.customerId)) =>
          /\ txn.pc = "done"
          /\ txn.outcome = "Unauthorized"
          /\ txn.nDetailed = 0
    /\ (txn.pc = "done" /\ txn.outcome = "ok") =>
          /\ GetProp(txn.result, "id") = txn.chargeId
          /\ charges[txn.chargeId.s].customer = txn.customerId
          /\ ~HasProp(txn.result, "fee")
          /\ ~HasProp(txn.result, "net")
    /\ (txn.pc = "done" /\ txn.outcome # "ok") => txn.result = Undefined

\* a customer has been given the details of a charge of theirs
C26_Witness ==
    /\ txn.pc = "done"
    /\ txn.outcome = "ok"
    /\ HasProp(txn.result, "customerName")
    /\ txn.nDetailed = 1

C28_OneInstancePerClass ==
    /\ \A class \in DOMAIN singles : singles[class].clients <= 1
    /\ lastCall.class # "none" =>
          /\ lastCall.outcome = "ok"
          /\ lastCall.returned # 0
          /\ lastCall.returned = firstGot[lastCall.class]

====
